---- MODULE Spec2Model ----
(***************************************************************************)
(* The ticker-selection registry of investing-bot: Bot (bot/bot.py), the   *)
(* sqlite storage functions (bot/data/__init__.py) and the provider        *)
(* aggregator DataProviderManager (bot/data/data_provider_manager.py).     *)
(*                                                                         *)
(* The store is the sqlite file named by the configuration.  Its content   *)
(* when the program starts is given by the environment: a fresh file has   *)
(* no tables, an existing file may already hold any of the tables the      *)
(* statements name.  Rows are only ever written by the program.            *)
(***************************************************************************)
EXTENDS Integers, Sequences, FiniteSets, TLC

\* ------------------------------------------------------------------ bounds
MaxTickerId == 3
MaxConfigLen == 2

\* --------------------------------------------------------------- constants
SELECTION_STOCKS_TABLE_NAME == "SELECTION"
TRADES_TABLE_NAME == "TRADES"
\* the table named by every INSERT / DELETE / SELECT statement
TICKERS_TABLE_NAME == "TICKERS"

Tickers == {"AAPL", "BADTICKER"}

\* Python's None, as a value of the same sort as the strings it stands among
None == "<None>"

\* the provider names DataProviderManager.__init__ can register
ProviderNames == {"fmp"}

\* ------------------------------------------------------------- exceptions
\* An outcome is what a call ends with: a normal return or a raised exception.
Returned == [exc |-> "none", msg |-> ""]
\* bot.OperationalException, by raise site of bot.py
DuplicateTickerError == [exc |-> "OperationalException", msg |-> "already present in registry"]
UnknownTickerError == [exc |-> "OperationalException", msg |-> "Could not evaluate stock"]
ProfileUnavailableError == [exc |-> "OperationalException", msg |-> "Could not evaluate with the data providers"]
IncompleteNameError == [exc |-> "OperationalException", msg |-> "Could not evaluate company name"]
IncompleteCategoryError == [exc |-> "OperationalException", msg |-> "Could not evaluate category"]
AddPersistenceError == [exc |-> "OperationalException", msg |-> "Something went wrong with adding stock"]
RemovePersistenceError == [exc |-> "OperationalException", msg |-> "Something went wrong while deleting"]
NotFoundError == [exc |-> "OperationalException", msg |-> "does not exist in the selection"]
\* raised by DataProviderManager.get_profile when no provider has a profile
NoProfileFound == [exc |-> "DataProviderException", msg |-> "Could not profile"]
\* raised by a provider whose transport fails
ProviderTransportError == [exc |-> "DataProviderException", msg |-> "transport failure"]
\* raised by sqlite3 (cursor.execute on a missing table, or a failing write)
SqliteError == [exc |-> "sqlite3.OperationalError", msg |-> "no such table / storage failure"]

IsOperationalException(o) == o.exc = "OperationalException"

\* ---------------------------------------------------------------- helpers
RECURSIVE MaxOf(_)
MaxOf(S) == IF S = {} THEN 0
            ELSE LET x == CHOOSE y \in S : TRUE
                     m == MaxOf(S \ {x})
                 IN IF x > m THEN x ELSE m

SeqsUpTo(S, n) == UNION {[1..k -> S] : k \in 0..n}

\* Python truthiness of an optional string
Truthy(s) == s # None /\ s # ""

\* ---------------------------------------------------------------- storage
\* Every storage function opens a connection with create_connection and calls
\* con.close() as its last statement, so an exit by an exception of
\* cursor.execute or con.commit skips the close.  unclosed counts the
\* connections a function has opened and has not closed when it exits.

\* SELECT name FROM sqlite_master WHERE type='table'; no con.close()
get_all_table_names(tbls) == [result |-> tbls, unclosed |-> 1]

\* CREATE TABLE name (...): fails when the table exists
create_table(tbls, name) ==
    IF name \in tbls
    THEN [raised |-> TRUE, tables |-> tbls, unclosed |-> 1]
    ELSE [raised |-> FALSE, tables |-> tbls \cup {name}, unclosed |-> 0]

\* a schema initialisation that creates both tables without looking
create_tables_NoCheck(tbls) ==
    LET n == get_all_table_names(tbls)
        s == create_table(tbls, SELECTION_STOCKS_TABLE_NAME)
        t == IF s.raised THEN s
             ELSE LET c == create_table(s.tables, TRADES_TABLE_NAME)
                  IN  [c EXCEPT !.unclosed = @ + s.unclosed]
    IN  [t EXCEPT !.unclosed = @ + n.unclosed]

create_tables(tbls) ==
    LET n == get_all_table_names(tbls)
        table_names == n.result
        s == IF SELECTION_STOCKS_TABLE_NAME \notin table_names
             THEN create_table(tbls, SELECTION_STOCKS_TABLE_NAME)
             ELSE [raised |-> FALSE, tables |-> tbls, unclosed |-> 0]
        t == IF s.raised THEN s
             ELSE IF TRADES_TABLE_NAME \notin table_names
             THEN LET c == create_table(s.tables, TRADES_TABLE_NAME)
                  IN  [c EXCEPT !.unclosed = @ + s.unclosed]
             ELSE s
    IN  [t EXCEPT !.unclosed = @ + n.unclosed]

\* sqlite assigns an INTEGER PRIMARY KEY the largest rowid in use plus one
NextTickerId(rws) == MaxOf({rws[i].ticker_id : i \in 1..Len(rws)}) + 1

\* INSERT INTO TICKERS (ticker, company_name, category) VALUES (?, ?, ?)
add_ticker(tbls, rws, ticker, company_name, category, fail) ==
    IF TICKERS_TABLE_NAME \notin tbls \/ fail
    THEN [raised |-> TRUE, rows |-> rws, unclosed |-> 1]
    ELSE [raised |-> FALSE,
          rows |-> Append(rws, [ticker_id |-> NextTickerId(rws), ticker |-> ticker,
                                company_name |-> company_name, category |-> category]),
          unclosed |-> 0]

\* a delete that matches no row
remove_ticker_NoRows(tbls, rws, ticker, fail) ==
    IF TICKERS_TABLE_NAME \notin tbls \/ fail
    THEN [raised |-> TRUE, rows |-> rws, unclosed |-> 1]
    ELSE [raised |-> FALSE, rows |-> rws, unclosed |-> 0]

\* a delete without its WHERE clause
remove_ticker_AllRows(tbls, rws, ticker, fail) ==
    IF TICKERS_TABLE_NAME \notin tbls \/ fail
    THEN [raised |-> TRUE, rows |-> rws, unclosed |-> 1]
    ELSE [raised |-> FALSE, rows |-> <<>>, unclosed |-> 0]

\* DELETE from TICKERS where ticker = ?
remove_ticker(tbls, rws, ticker, fail) ==
    IF TICKERS_TABLE_NAME \notin tbls \/ fail
    THEN [raised |-> TRUE, rows |-> rws, unclosed |-> 1]
    ELSE [raised |-> FALSE,
          rows |-> SelectSeq(rws, LAMBDA r : r.ticker # ticker), unclosed |-> 0]

\* a lookup that never matches a stored row
get_company_profile_from_selection_NoMatch(tbls, rws, ticker) ==
    IF TICKERS_TABLE_NAME \notin tbls
    THEN [raised |-> TRUE, result |-> <<>>, unclosed |-> 1]
    ELSE [raised |-> FALSE, result |-> <<>>, unclosed |-> 0]

\* SELECT * FROM TICKERS WHERE ticker=?
get_company_profile_from_selection(tbls, rws, ticker) ==
    IF TICKERS_TABLE_NAME \notin tbls
    THEN [raised |-> TRUE, result |-> <<>>, unclosed |-> 1]
    ELSE [raised |-> FALSE, result |-> SelectSeq(rws, LAMBDA r : r.ticker = ticker),
          unclosed |-> 0]

\* the tickers that have a row
TickersOf(rws) == {rws[i].ticker : i \in 1..Len(rws)}

\* SELECT (ticker) from TICKERS
get_tickers_from_selection(tbls, rws) ==
    IF TICKERS_TABLE_NAME \notin tbls
    THEN [raised |-> TRUE, result |-> <<>>, unclosed |-> 1]
    ELSE [raised |-> FALSE, result |-> [i \in 1..Len(rws) |-> <<rws[i].ticker>>],
          unclosed |-> 0]

\* ------------------------------------------------------------- providers
\* What one provider answers to one call.  evaluate_ticker answers a boolean
\* or fails in transport; get_profile answers nothing (None), a dictionary
\* whose profile may lack either field, or fails in transport.  A provider
\* that is not called gives no answer: "unasked".
EvalResponses == {"True", "False", "raise"}

NoProfile == [tag |-> "None", companyName |-> None, industry |-> None]
ProfileRaise == [tag |-> "raise", companyName |-> None, industry |-> None]
ProfileDicts == [tag : {"dict"}, companyName : {None, "", "Apple Inc"},
                 industry : {None, "Technology"}]
ProfileResponses == {NoProfile, ProfileRaise} \cup ProfileDicts
Unasked == [tag |-> "unasked", companyName |-> None, industry |-> None]

\* Python truthiness of what get_profile returned
TruthyProfile(p) == p.tag = "dict"

\* a profile with a company name and a category
CompleteProfile(p) ==
    p.tag = "dict" /\ Truthy(p.companyName) /\ Truthy(p.industry)

\* ------------------------------------------------------------ aggregator
\* DataProviderManager.evaluate_ticker: ev[p] is provider p's answer
\* an aggregator that goes on asking after a provider has confirmed
RECURSIVE evaluate_ticker_NoStop(_, _)
evaluate_ticker_NoStop(modules, ev) ==
    IF modules = <<>>
    THEN [ret |-> FALSE, raised |-> FALSE, calls |-> <<>>]
    ELSE LET data_provider == Head(modules)
             call == <<"evaluate_ticker", data_provider>>
         IN  IF ev[data_provider] = "raise"
             THEN [ret |-> FALSE, raised |-> TRUE, calls |-> <<call>>]
             ELSE LET rest == evaluate_ticker_NoStop(Tail(modules), ev)
                  IN  [rest EXCEPT !.calls = <<call>> \o @,
                                   !.ret = @ \/ (ev[data_provider] = "True" /\ ~rest.raised)]

RECURSIVE evaluate_ticker(_, _)
evaluate_ticker(modules, ev) ==
    IF modules = <<>>
    THEN [ret |-> FALSE, raised |-> FALSE, calls |-> <<>>]
    ELSE LET data_provider == Head(modules)
             call == <<"evaluate_ticker", data_provider>>
         IN  IF ev[data_provider] = "raise"
             THEN [ret |-> FALSE, raised |-> TRUE, calls |-> <<call>>]
             ELSE IF ev[data_provider] = "True"
             THEN [ret |-> TRUE, raised |-> FALSE, calls |-> <<call>>]
             ELSE LET rest == evaluate_ticker(Tail(modules), ev)
                  IN  [rest EXCEPT !.calls = <<call>> \o @]

\* DataProviderManager.get_profile: pr[p] is provider p's answer
RECURSIVE get_profile(_, _)
get_profile(modules, pr) ==
    IF modules = <<>>
    THEN [ret |-> NoProfile, exc |-> NoProfileFound, calls |-> <<>>]
    ELSE LET data_provider == Head(modules)
             call == <<"get_profile", data_provider>>
         IN  IF pr[data_provider].tag = "raise"
             THEN [ret |-> NoProfile, exc |-> ProviderTransportError, calls |-> <<call>>]
             ELSE IF TruthyProfile(pr[data_provider])
             THEN [ret |-> pr[data_provider], exc |-> Returned, calls |-> <<call>>]
             ELSE LET rest == get_profile(Tail(modules), pr)
                  IN  [rest EXCEPT !.calls = <<call>> \o @]

\* --------------------------------------------------------------- the Bot
\* how a call of the Bot ends: outcome, the rows then, the calls it made in
\* order, and the connections its storage calls left unclosed
Result(outcome, rws, trace, unclosed) ==
    [outcome |-> outcome, rows |-> rws, trace |-> trace, unclosed |-> unclosed]

\* Bot.add_stock_to_selection from the provider check on (bot.py:48-76), once
\* the duplicate check has found no row; t0, u0: the trace and the unclosed
\* connections so far; fail: the insert fails
add_after_check(tbls, rws, modules, ticker, ev, pr, fail, t0, u0) ==
    LET e == evaluate_ticker(modules, ev)
        t1 == t0 \o e.calls
    IN
    IF e.raised THEN Result(ProviderTransportError, rws, t1, u0)
    ELSE IF ~e.ret THEN Result(UnknownTickerError, rws, t1, u0)
    ELSE
    LET g == get_profile(modules, pr)
        t2 == t1 \o g.calls
        profile == g.ret
    IN
    IF g.exc # Returned THEN Result(g.exc, rws, t2, u0)
    ELSE IF ~TruthyProfile(profile) THEN Result(ProfileUnavailableError, rws, t2, u0)
    ELSE
    LET company_name == profile.companyName
        category == profile.industry
    IN
    IF ~Truthy(company_name) THEN Result(IncompleteNameError, rws, t2, u0)
    ELSE IF ~Truthy(company_name) THEN Result(IncompleteCategoryError, rws, t2, u0)
    ELSE
    LET a == add_ticker(tbls, rws, ticker, company_name, category, fail)
        t3 == Append(t2, <<"add_ticker", ticker>>)
    IN
    IF a.raised THEN Result(AddPersistenceError, rws, t3, u0 + a.unclosed)
    ELSE Result(Returned, a.rows, t3, u0 + a.unclosed)

\* an add that asks the providers before it looks the ticker up
add_stock_to_selection_ProvidersFirst(tbls, rws, modules, ticker, ev, pr, fail) ==
    LET e == evaluate_ticker(modules, ev)
        found == get_company_profile_from_selection(tbls, rws, ticker)
        t0 == Append(e.calls, <<"get_company_profile_from_selection", ticker>>)
    IN
    IF e.raised THEN Result(ProviderTransportError, rws, e.calls, 0)
    ELSE IF ~e.ret THEN Result(UnknownTickerError, rws, e.calls, 0)
    ELSE IF found.raised THEN Result(SqliteError, rws, t0, found.unclosed)
    ELSE IF found.result # <<>> THEN Result(DuplicateTickerError, rws, t0, found.unclosed)
    ELSE add_after_check(tbls, rws, modules, ticker, ev, pr, fail, t0, found.unclosed)

\* Bot.add_stock_to_selection on store (tbls, rws); fail: the insert fails
add_stock_to_selection(tbls, rws, modules, ticker, ev, pr, fail) ==
    LET found == get_company_profile_from_selection(tbls, rws, ticker)
        t0 == << <<"get_company_profile_from_selection", ticker>> >>
    IN
    IF found.raised THEN Result(SqliteError, rws, t0, found.unclosed)
    ELSE IF found.result # <<>> THEN Result(DuplicateTickerError, rws, t0, found.unclosed)
    ELSE add_after_check(tbls, rws, modules, ticker, ev, pr, fail, t0, found.unclosed)

\* Bot.remove_stock_from_selection; fail: the delete fails
remove_stock_from_selection(tbls, rws, ticker, fail) ==
    LET found == get_company_profile_from_selection(tbls, rws, ticker)
        t0 == << <<"get_company_profile_from_selection", ticker>> >>
    IN
    IF found.raised THEN Result(SqliteError, rws, t0, found.unclosed)
    ELSE IF found.result # <<>>
    THEN LET d == remove_ticker(tbls, rws, ticker, fail)
             t1 == Append(t0, <<"remove_ticker", ticker>>)
         IN  IF d.raised
             THEN Result(RemovePersistenceError, rws, t1, found.unclosed + d.unclosed)
             ELSE Result(Returned, d.rows, t1, found.unclosed + d.unclosed)
    ELSE Result(NotFoundError, rws, t0, found.unclosed)

\* Bot.get_stocks_selection
get_stocks_selection(tbls, rws) ==
    LET tickers == get_tickers_from_selection(tbls, rws)
    IN  IF tickers.raised
        THEN [outcome |-> SqliteError, result |-> <<>>, unclosed |-> tickers.unclosed]
        ELSE [outcome |-> Returned,
              result |-> [i \in 1..Len(tickers.result) |-> tickers.result[i][1]],
              unclosed |-> tickers.unclosed]

\* ------------------------------------------------------------------ state
VARIABLES
    tables,              \* names of the tables in the sqlite file
    rows,                \* rows of table TICKERS, in rowid order
    config,              \* the configuration the Bot was constructed with
    registered_modules,  \* DataProviderManager.registered_modules
    phase,               \* "new", "constructing", "running" or "crashed"
    batch,               \* the running or last finished loop over tickers
    last,                \* the last registry call that finished, with its inputs
    telegram,            \* the last Telegram update and whether its handler ran
    adds,                \* concurrent adds between their check and their insert
    conversation         \* the stock selection conversation of the configured chat

vars == <<tables, rows, config, registered_modules, phase, batch, last, telegram, adds,
          conversation>>

ConfigTickers == SeqsUpTo(Tickers, MaxConfigLen)

Range(f) == {f[i] : i \in DOMAIN f}

Asked(trace, call, p) == \E i \in 1..Len(trace) : trace[i] = <<call, p>>

\* The environment's part in one call: an answer for exactly the provider
\* calls the trace shows, and a write failure only for a write that is issued.
AnswersOf(trace, ev, pr, fail) ==
    /\ \A p \in ProviderNames :
        /\ (ev[p] = "unasked") <=> ~Asked(trace, "evaluate_ticker", p)
        /\ (pr[p] = Unasked) <=> ~Asked(trace, "get_profile", p)
    /\ fail => \E t \in Tickers : Asked(trace, "add_ticker", t) \/ Asked(trace, "remove_ticker", t)

NoEval == [p \in ProviderNames |-> "unasked"]
NoProfiles == [p \in ProviderNames |-> Unasked]

\* the record kept of a finished call; undoes: the rows before the add that
\* this call reverses, when it is a remove right after a successful add of
\* the same ticker
Call(op, ticker, r, before, ev, pr, fail, result, undoes) ==
    [op |-> op, ticker |-> ticker, outcome |-> r.outcome, before |-> before,
     trace |-> r.trace, ev |-> ev, pr |-> pr, fail |-> fail, result |-> result,
     undoes |-> undoes, unclosed |-> r.unclosed]

NoCall == Call("none", None, Result(Returned, <<>>, <<>>, 0), <<>>, NoEval, NoProfiles,
               FALSE, <<>>, <<>>)

Undoes(l, ticker) ==
    IF l.op = "add" /\ l.outcome = Returned /\ l.ticker = ticker
    THEN <<l.before>> ELSE <<>>

\* a loop over tickers: its input and position, and what happened so far.
\* before: the tickers stored when the loop was entered; accepted / rejected:
\* the tickers the providers validated / did not validate in this loop;
\* write_failed: a storage write of this loop failed
NoBatch == [op |-> "none", caller |-> "none", input |-> <<>>, i |-> 0,
            status |-> "none", logged |-> 0, exc |-> Returned,
            before |-> {}, accepted |-> {}, rejected |-> {}, write_failed |-> FALSE]
StartBatch(op, caller, input) ==
    [op |-> op, caller |-> caller, input |-> input, i |-> 0,
     status |-> "running", logged |-> 0, exc |-> Returned,
     before |-> TickersOf(rows), accepted |-> {}, rejected |-> {}, write_failed |-> FALSE]

\* ------------------------------------------------------- Telegram updates
\* config['telegram']['chat_id'], a string of digits
ConfiguredChatId == "1"

\* update.message.chat_id of the chats that send updates
ChatIds == {1, 2}

\* int() of a string of digits
int(s) ==
    CASE s = "1" -> 1
      [] s = "01" -> 1
      [] s = "2" -> 2

\* the handlers that call the registry, all decorated with authorized_only
Handlers == {"_add_stocks_to_selection", "_remove_stocks_from_selection",
             "_list_stocks_in_selection", "_remove_stock_selection",
             "_reload_stocks_selection_config"}

\* a wrapper that lets every update through
authorized_only_Always(chat_id, update_chat_id) == TRUE

\* authorized_only.wrapper: whether command_handler is called for an update
\* from chat update_chat_id
authorized_only(chat_id, update_chat_id) == update_chat_id = int(chat_id)

NoUpdate == [handler |-> "none", chat_id |-> 0, executed |-> FALSE]

\* the wrapper lets an update for handler through and the handler starts
Executes(handler) ==
    \E update_chat_id \in ChatIds :
        /\ authorized_only(ConfiguredChatId, update_chat_id)
        /\ telegram' = [handler |-> handler, chat_id |-> update_chat_id, executed |-> TRUE]

\* ------------------------------------------------------- the conversation
\* the states of the stock selection conversation, ConversationHandler.END
\* when there is none, and what a handler returns to move between them
END == "END"
CHOOSING == "CHOOSING"
ADDING == "ADDING"
REMOVING == "REMOVING"

\* ConversationHandler: a handler that returns None leaves the conversation
\* where it is, any other value is the next state
update_state(state, ret) == IF ret = None THEN state ELSE ret

MaxMessageLen == 2

\* the pieces between the commas of a message text
Pieces == {"AAPL", " AAPL", "BADTICKER"}

\* str.strip()
strip(piece) == IF piece = " AAPL" THEN "AAPL" ELSE piece

\* text.split(','): a text is the sequence of its pieces, never empty
Messages == SeqsUpTo(Pieces, MaxMessageLen) \ {<<>>}

\* tickers = [ticker.strip() for ticker in text.split(',')]
tickers_of(text) == [i \in 1..Len(text) |-> strip(text[i])]

\* state: the conversation's state; text: the message the running or last
\* ticker handler received; attempted: the tickers it has passed to the
\* registry, in order; ret: what the last finished handler returned through
\* the wrapper
NoConversation == [state |-> END, text |-> <<>>, attempted |-> <<>>, ret |-> None]

\* ------------------------------------------------------- concurrent callers
Callers == {1, 2}

\* pending[c]: the ticker caller c's add has checked and not yet inserted;
\* raced: the tickers inserted by one caller while another caller's add of the
\* same ticker was between its check and its insert
NoAdds == [pending |-> [c \in Callers |-> None], raced |-> {}]

\* the rowid counter is kept within MaxTickerId
IdsWithinBound(rws) == \A i \in 1..Len(rws) : rws[i].ticker_id <= MaxTickerId

Init ==
    /\ tables \in SUBSET {SELECTION_STOCKS_TABLE_NAME, TRADES_TABLE_NAME, TICKERS_TABLE_NAME}
    /\ rows = <<>>
    /\ config \in [tickers : ConfigTickers, fmp_enabled : BOOLEAN]
    /\ registered_modules = <<>>
    /\ phase = "new"
    /\ batch = NoBatch
    /\ last = NoCall
    /\ telegram = NoUpdate
    /\ adds = NoAdds
    /\ conversation = NoConversation

\* the Bot exists and no handler is running
Idle == phase = "running" /\ batch.status # "running"

\* --------------------------------------------------------------- actions
\* Bot.__init__ up to the call of load_stock_selection_from_config, with
\* DataProviderManager.__init__ (create_tables, provider registration)
Bot_init ==
    /\ phase = "new"
    /\ LET c == create_tables(tables)
       IN  /\ tables' = c.tables
           /\ last' = Call("create_tables", None,
                           Result(IF c.raised THEN SqliteError ELSE Returned, rows, <<>>,
                                  c.unclosed),
                           rows, NoEval, NoProfiles, FALSE, <<>>, <<>>)
           /\ IF c.raised
              THEN /\ phase' = "crashed"
                   /\ registered_modules' = <<>>
                   /\ batch' = NoBatch
              ELSE /\ phase' = "constructing"
                   /\ registered_modules' = IF config.fmp_enabled THEN <<"fmp">> ELSE <<>>
                   /\ batch' = StartBatch("reload", "init", config.tickers)
    /\ UNCHANGED <<rows, config, conversation, telegram, adds>>

\* Service._service_reload_stocks_selection_config: entry of the loop
service_reload_stocks_selection_config ==
    /\ Idle
    /\ batch' = StartBatch("reload", "service", config.tickers)
    /\ Executes("_reload_stocks_selection_config")
    /\ UNCHANGED <<tables, rows, config, conversation, adds, registered_modules, phase, last>>

\* one call of Bot.add_stock_to_selection and the record of it
AddCall(ticker) ==
    \E ev \in [ProviderNames -> EvalResponses \cup {"unasked"}],
       pr \in [ProviderNames -> ProfileResponses \cup {Unasked}],
       fail \in BOOLEAN :
        LET r == add_stock_to_selection(tables, rows, registered_modules, ticker, ev, pr, fail)
        IN  /\ AnswersOf(r.trace, ev, pr, fail)
            /\ IdsWithinBound(r.rows)
            /\ rows' = r.rows
            /\ last' = Call("add", ticker, r, rows, ev, pr, fail, <<>>, <<>>)

\* one call of Bot.remove_stock_from_selection and the record of it
RemoveCall(ticker) ==
    \E fail \in BOOLEAN :
        LET r == remove_stock_from_selection(tables, rows, ticker, fail)
        IN  /\ AnswersOf(r.trace, NoEval, NoProfiles, fail)
            /\ rows' = r.rows
            /\ last' = Call("remove", ticker, r, rows, NoEval, NoProfiles, fail, <<>>,
                            Undoes(last, ticker))

\* the except clause of a loop over tickers: an OperationalException is
\* logged and the loop continues, any other exception leaves the loop
AfterCall(b, outcome) ==
    IF outcome = Returned THEN [b EXCEPT !.i = @ + 1]
    ELSE IF IsOperationalException(outcome)
    THEN [b EXCEPT !.i = @ + 1, !.logged = @ + 1]
    ELSE [b EXCEPT !.status = "raised", !.exc = outcome]

\* the providers' verdict in call l: the add reached the providers, and
\* they confirmed the ticker with a complete profile, or they did not
ReachedProviders(l) ==
    l.op = "add" /\ l.outcome \notin {SqliteError, DuplicateTickerError}
Validated(l) ==
    /\ ReachedProviders(l)
    /\ \E p \in DOMAIN l.ev : l.ev[p] = "True"
    /\ \E p \in DOMAIN l.pr : CompleteProfile(l.pr[p])

\* what the loop has seen, after call l
Tally(b, l) ==
    [b EXCEPT !.accepted = IF Validated(l) /\ ~l.fail THEN @ \cup {l.ticker} ELSE @,
              !.rejected = IF ReachedProviders(l) /\ ~Validated(l)
                           THEN @ \cup {l.ticker} ELSE @,
              !.write_failed = @ \/ l.fail]

\* one iteration of the loop of Bot.load_stock_selection_from_config
load_stock_selection_from_config_step ==
    /\ batch.op = "reload" /\ batch.status = "running" /\ batch.i < Len(batch.input)
    /\ AddCall(batch.input[batch.i + 1])
    /\ batch' = Tally(AfterCall(batch, last'.outcome), last')
    /\ phase' = IF batch'.status = "raised" /\ batch.caller = "init"
                THEN "crashed" ELSE phase
    /\ UNCHANGED <<tables, config, conversation, telegram, adds, registered_modules>>

\* the loop of Bot.load_stock_selection_from_config is exhausted
load_stock_selection_from_config_return ==
    /\ batch.op = "reload" /\ batch.status = "running" /\ batch.i = Len(batch.input)
    /\ batch' = [batch EXCEPT !.status = "returned"]
    /\ phase' = "running"
    /\ UNCHANGED <<tables, rows, config, conversation, telegram, adds,
                 registered_modules, last>>

\* Service._service_add_stock_to_selection
service_add_stock_to_selection ==
    /\ Idle
    /\ \E ticker \in Tickers : AddCall(ticker)
    /\ batch' = NoBatch
    /\ Executes("_add_stocks_to_selection")
    /\ UNCHANGED <<tables, config, conversation, adds, registered_modules, phase>>

\* Service._service_remove_stock_from_selection
service_remove_stock_from_selection ==
    /\ Idle
    /\ \E ticker \in Tickers : RemoveCall(ticker)
    /\ batch' = NoBatch
    /\ Executes("_remove_stocks_from_selection")
    /\ UNCHANGED <<tables, config, conversation, adds, registered_modules, phase>>

\* Service._service_get_stocks_selection
service_get_stocks_selection ==
    /\ Idle
    /\ LET r == get_stocks_selection(tables, rows)
       IN  last' = Call("list", None, Result(r.outcome, rows, <<>>, r.unclosed), rows, NoEval,
                        NoProfiles, FALSE, r.result, <<>>)
    /\ batch' = NoBatch
    /\ Executes("_list_stocks_in_selection")
    /\ UNCHANGED <<tables, rows, config, conversation, adds, registered_modules, phase>>

\* Service._service_remove_stock_selection: Bot.remove_stocks_selection up to
\* its loop (the list of tickers is fetched once)
service_remove_stock_selection ==
    /\ Idle
    /\ LET r == get_stocks_selection(tables, rows)
       IN  batch' = IF r.outcome = Returned
                    THEN StartBatch("clear", "service", r.result)
                    ELSE [StartBatch("clear", "service", <<>>) EXCEPT
                            !.status = "raised", !.exc = r.outcome]
    /\ Executes("_remove_stock_selection")
    /\ UNCHANGED <<tables, rows, config, conversation, adds, registered_modules, phase, last>>

\* one iteration of the loop of Bot.remove_stocks_selection
remove_stocks_selection_step ==
    /\ batch.op = "clear" /\ batch.status = "running" /\ batch.i < Len(batch.input)
    /\ RemoveCall(batch.input[batch.i + 1])
    /\ batch' = Tally(AfterCall(batch, last'.outcome), last')
    /\ UNCHANGED <<tables, config, conversation, telegram, adds, registered_modules, phase>>

\* the loop of Bot.remove_stocks_selection is exhausted
remove_stocks_selection_return ==
    /\ batch.op = "clear" /\ batch.status = "running" /\ batch.i = Len(batch.input)
    /\ batch' = [batch EXCEPT !.status = "returned"]
    /\ UNCHANGED <<tables, rows, config, conversation, telegram, adds,
                 registered_modules, phase, last>>

\* the process ends and is started again on the same database file and the
\* same configuration: the next step constructs a new Bot
process_restart ==
    /\ phase \in {"running", "crashed"}
    /\ batch.status # "running"
    /\ phase' = "new"
    /\ registered_modules' = <<>>
    /\ batch' = NoBatch
    /\ last' = NoCall
    /\ telegram' = NoUpdate
    /\ UNCHANGED <<tables, rows, config, conversation, adds>>

Next ==
    \/ Bot_init
    \/ process_restart
    \/ service_reload_stocks_selection_config
    \/ load_stock_selection_from_config_step
    \/ load_stock_selection_from_config_return
    \/ service_add_stock_to_selection
    \/ service_remove_stock_from_selection
    \/ service_get_stocks_selection
    \/ service_remove_stock_selection
    \/ remove_stocks_selection_step
    \/ remove_stocks_selection_return

Spec == Init /\ [][Next]_vars

\* ------------------------------------------------------ concurrent adds
\* Two callers run Bot.add_stock_to_selection on one Bot at the same time.
\* Every storage function opens its own connection and commits its own
\* statement, so a step of a caller is one storage call: the duplicate check
\* (bot.py:46) is one step and the rest of the add, with its insert
\* (bot.py:68), is another.
InitConcurrent ==
    /\ tables \in {create_tables(t).tables :
                    t \in SUBSET {SELECTION_STOCKS_TABLE_NAME, TRADES_TABLE_NAME,
                                  TICKERS_TABLE_NAME}}
    /\ rows = <<>>
    /\ config \in [tickers : {<<>>}, fmp_enabled : BOOLEAN]
    /\ registered_modules = IF config.fmp_enabled THEN <<"fmp">> ELSE <<>>
    /\ phase = "running"
    /\ batch = NoBatch
    /\ last = NoCall
    /\ telegram = NoUpdate
    /\ adds = NoAdds
    /\ conversation = NoConversation

\* caller c's add runs its duplicate check
concurrent_add_check(c) ==
    /\ adds.pending[c] = None
    /\ \E ticker \in Tickers :
          LET found == get_company_profile_from_selection(tables, rows, ticker)
              t0 == << <<"get_company_profile_from_selection", ticker>> >>
          IN  IF found.raised \/ found.result # <<>>
              THEN /\ last' = Call("add", ticker,
                                   Result(IF found.raised THEN SqliteError
                                          ELSE DuplicateTickerError,
                                          rows, t0, found.unclosed),
                                   rows, NoEval, NoProfiles, FALSE, <<>>, <<>>)
                   /\ adds' = adds
              ELSE /\ adds' = [adds EXCEPT !.pending[c] = ticker]
                   /\ last' = last
    /\ UNCHANGED <<tables, rows, config, conversation, registered_modules, phase, batch,
                 telegram>>

\* caller c's add runs from the provider check to its end
concurrent_add_finish(c) ==
    /\ adds.pending[c] # None
    /\ \E ev \in [ProviderNames -> EvalResponses \cup {"unasked"}],
          pr \in [ProviderNames -> ProfileResponses \cup {Unasked}],
          fail \in BOOLEAN :
            LET ticker == adds.pending[c]
                t0 == << <<"get_company_profile_from_selection", ticker>> >>
                r == add_after_check(tables, rows, registered_modules, ticker, ev, pr,
                                     fail, t0, 0)
                checked == {d \in Callers \ {c} : adds.pending[d] = ticker}
            IN  /\ AnswersOf(r.trace, ev, pr, fail)
                /\ IdsWithinBound(r.rows)
                /\ rows' = r.rows
                /\ last' = Call("add", ticker, r, rows, ev, pr, fail, <<>>, <<>>)
                /\ adds' = [pending |-> [adds.pending EXCEPT ![c] = None],
                            raced |-> IF r.outcome = Returned /\ checked # {}
                                      THEN adds.raced \cup {ticker} ELSE adds.raced]
    /\ UNCHANGED <<tables, config, conversation, registered_modules, phase, batch, telegram>>

NextConcurrent ==
    \/ \E c \in Callers : concurrent_add_check(c)
    \/ \E c \in Callers : concurrent_add_finish(c)

SpecConcurrent == InitConcurrent /\ [][NextConcurrent]_vars

\* ------------------------------------------- the conversation's handlers
\* The configured chat talks to the Bot through the stock selection
\* conversation: /stocks_selection, then /add_tickers or /remove_tickers,
\* then a text with tickers separated by commas.
InitTelegram ==
    /\ tables \in {create_tables(t).tables :
                    t \in SUBSET {SELECTION_STOCKS_TABLE_NAME, TRADES_TABLE_NAME,
                                  TICKERS_TABLE_NAME}}
    /\ rows = <<>>
    /\ config \in [tickers : {<<>>}, fmp_enabled : BOOLEAN]
    /\ registered_modules = IF config.fmp_enabled THEN <<"fmp">> ELSE <<>>
    /\ phase = "running"
    /\ batch = NoBatch
    /\ last = NoCall
    /\ telegram = NoUpdate
    /\ adds = NoAdds
    /\ conversation = NoConversation

\* an update from a chat that is not the configured one: the wrapper logs it
\* and returns without calling the handler
telegram_rejected_update ==
    /\ Idle
    /\ \E handler \in Handlers, update_chat_id \in ChatIds :
          /\ ~authorized_only(ConfiguredChatId, update_chat_id)
          /\ telegram' = [handler |-> handler, chat_id |-> update_chat_id,
                          executed |-> FALSE]
    /\ UNCHANGED <<tables, rows, config, conversation, registered_modules, phase, batch,
                 last, adds>>

\* a handler that only answers and returns the next state
Moves(handler, from, ret) ==
    /\ conversation.state \in from
    /\ Executes(handler)
    /\ conversation' = [state |-> update_state(conversation.state, ret), text |-> <<>>,
                        attempted |-> <<>>, ret |-> ret]
    /\ batch' = NoBatch
    /\ UNCHANGED <<tables, rows, config, registered_modules, phase, last, adds>>

\* Telegram._start_stock_selection_conversation, the entry point
telegram_start_stock_selection_conversation ==
    /\ Idle
    /\ Moves("_start_stock_selection_conversation", {END}, CHOOSING)

\* Telegram._start_adding_stocks_to_selection
telegram_start_adding_stocks_to_selection ==
    /\ Idle
    /\ Moves("_start_adding_stocks_to_selection", {CHOOSING}, ADDING)

\* Telegram._start_removing_stocks_from_selection
telegram_start_removing_stocks_from_selection ==
    /\ Idle
    /\ Moves("_start_removing_stocks_from_selection", {CHOOSING}, REMOVING)

\* Telegram._cancel_conversation, the fallback of every state
telegram_cancel_conversation ==
    /\ Idle
    /\ Moves("_cancel_conversation", {CHOOSING, ADDING, REMOVING}, END)

\* a ticker handler receives a text: entry of its loop
Receives(handler, state, op) ==
    /\ conversation.state = state
    /\ Executes(handler)
    /\ \E text \in Messages :
          /\ batch' = StartBatch(op, "telegram", tickers_of(text))
          /\ conversation' = [conversation EXCEPT !.text = text, !.attempted = <<>>,
                                                  !.ret = None]
    /\ UNCHANGED <<tables, rows, config, registered_modules, phase, last, adds>>

\* the loop of a ticker handler is exhausted: the handler returns END
Ends(op) ==
    /\ batch.op = op
    /\ batch' = [batch EXCEPT !.status = "returned"]
    /\ conversation' = [conversation EXCEPT !.state = update_state(@, END), !.ret = END]
    /\ UNCHANGED <<tables, rows, config, registered_modules, phase, last, telegram, adds>>

\* what one iteration leaves of the conversation: an exception the loop does
\* not catch reaches the wrapper, which logs it and returns None
AfterIteration(c, b, ticker) ==
    [c EXCEPT !.attempted = Append(@, ticker),
              !.state = IF b.status = "raised" THEN update_state(@, None) ELSE @,
              !.ret = None]

\* Telegram._add_stocks_to_selection
telegram_add_stocks_to_selection ==
    /\ Idle
    /\ Receives("_add_stocks_to_selection", ADDING, "telegram_add")

\* one iteration of the loop of Telegram._add_stocks_to_selection
telegram_add_stocks_to_selection_step ==
    /\ batch.op = "telegram_add" /\ batch.status = "running"
    /\ batch.i < Len(batch.input)
    /\ AddCall(batch.input[batch.i + 1])
    /\ batch' = Tally(AfterCall(batch, last'.outcome), last')
    /\ conversation' = AfterIteration(conversation, batch', last'.ticker)
    /\ UNCHANGED <<tables, config, registered_modules, phase, telegram, adds>>

\* the loop is exhausted
telegram_add_stocks_to_selection_return ==
    /\ batch.status = "running" /\ batch.i = Len(batch.input)
    /\ Ends("telegram_add")

\* Telegram._remove_stocks_from_selection
telegram_remove_stocks_from_selection ==
    /\ Idle
    /\ Receives("_remove_stocks_from_selection", REMOVING, "telegram_remove")

\* one iteration of the loop of Telegram._remove_stocks_from_selection
telegram_remove_stocks_from_selection_step ==
    /\ batch.op = "telegram_remove" /\ batch.status = "running"
    /\ batch.i < Len(batch.input)
    /\ RemoveCall(batch.input[batch.i + 1])
    /\ batch' = Tally(AfterCall(batch, last'.outcome), last')
    /\ conversation' = AfterIteration(conversation, batch', last'.ticker)
    /\ UNCHANGED <<tables, config, registered_modules, phase, telegram, adds>>

\* the loop is exhausted
telegram_remove_stocks_from_selection_return ==
    /\ batch.status = "running" /\ batch.i = Len(batch.input)
    /\ Ends("telegram_remove")

NextTelegram ==
    \/ telegram_rejected_update
    \/ telegram_start_stock_selection_conversation
    \/ telegram_start_adding_stocks_to_selection
    \/ telegram_start_removing_stocks_from_selection
    \/ telegram_cancel_conversation
    \/ telegram_add_stocks_to_selection
    \/ telegram_add_stocks_to_selection_step
    \/ telegram_add_stocks_to_selection_return
    \/ telegram_remove_stocks_from_selection
    \/ telegram_remove_stocks_from_selection_step
    \/ telegram_remove_stocks_from_selection_return

SpecTelegram == InitTelegram /\ [][NextTelegram]_vars

\* ----------------------------------------------------- the aggregator alone
\* DataProviderManager.evaluate_ticker applied to lists of enabled providers
\* of every length up to MaxModules and to every answer of the providers it
\* calls.
MaxModules == 3

AggregatorProviders == {"fmp", "provider2", "provider3"}

\* self.modules: each enabled provider once, in the configured order
ModuleLists ==
    {m \in SeqsUpTo(AggregatorProviders, MaxModules) :
        \A i, j \in 1..Len(m) : i # j => m[i] # m[j]}

InitAggregator ==
    /\ tables = {}
    /\ rows = <<>>
    /\ config = [tickers |-> <<>>, fmp_enabled |-> TRUE]
    /\ registered_modules \in ModuleLists
    /\ phase = "aggregator"
    /\ batch = NoBatch
    /\ last = NoCall
    /\ telegram = NoUpdate
    /\ adds = NoAdds
    /\ conversation = NoConversation

\* one call of DataProviderManager.evaluate_ticker and the record of it
aggregator_evaluate_ticker ==
    /\ phase = "aggregator"
    /\ \E ticker \in Tickers,
          ev \in [AggregatorProviders -> EvalResponses \cup {"unasked"}] :
            LET e == evaluate_ticker(registered_modules, ev)
            IN  /\ \A p \in AggregatorProviders :
                       (ev[p] = "unasked") <=> ~Asked(e.calls, "evaluate_ticker", p)
                /\ last' = Call("evaluate_ticker", ticker,
                                Result(IF e.raised THEN ProviderTransportError ELSE Returned,
                                       rows, e.calls, 0),
                                rows, ev, NoProfiles, FALSE,
                                <<IF e.ret THEN "True" ELSE "False">>, <<>>)
    /\ UNCHANGED <<tables, rows, config, conversation, telegram, adds,
                 registered_modules, phase, batch>>

NextAggregator == aggregator_evaluate_ticker

SpecAggregator == InitAggregator /\ [][NextAggregator]_vars

\* ---------------------------------------------------------------- claims
Occurrences(rws, ticker) == Cardinality({i \in 1..Len(rws) : rws[i].ticker = ticker})

\* what the providers said in the last call
SomeProviderConfirmed == \E p \in Range(registered_modules) : last.ev[p] = "True"
NoProviderRefused ==
    \A p \in ProviderNames : last.ev[p] \in {"True", "unasked"}
NoProviderConfirmed ==
    \A p \in ProviderNames : last.ev[p] \in {"False", "unasked"}
NoIncompleteProfile ==
    \A p \in ProviderNames : last.pr[p] = Unasked \/ CompleteProfile(last.pr[p])
SomeProviderRaised ==
    \E p \in ProviderNames : last.ev[p] = "raise" \/ last.pr[p] = ProfileRaise
LastAddOfAbsent == last.op = "add" /\ last.ticker \notin TickersOf(last.before)

\* C1: a finished reloadFromConfig has returned normally and has attempted
\* add for every symbol of the configured sequence, whatever failed on the way.
C1_ReloadNeverRaises ==
    (batch.op = "reload" /\ batch.status # "running")
        => (batch.status = "returned" /\ batch.i = Len(batch.input))

\* C2: every stored entry has a non-empty company name and a non-empty
\* category, and an add whose profile lacks either field fails with
\* IncompleteProfileError.
C2_EntriesComplete ==
    /\ \A i \in 1..Len(rows) : Truthy(rows[i].company_name) /\ Truthy(rows[i].category)
    /\ (last.op = "add" /\ \E p \in ProviderNames :
            last.pr[p].tag = "dict" /\ ~CompleteProfile(last.pr[p]))
        => last.outcome \in {IncompleteNameError, IncompleteCategoryError}

\* C3: with calls running one at a time the registry holds at most one entry
\* per ticker, also when the configured sequence names a ticker twice.
C3_UniqueTickers ==
    \A i, j \in 1..Len(rows) : rows[i].ticker = rows[j].ticker => i = j

C3_Witness ==
    /\ batch.op = "reload" /\ batch.status = "returned"
    /\ Len(batch.input) = 2 /\ batch.input[1] = batch.input[2]
    /\ batch.logged >= 1
    /\ last.outcome = DuplicateTickerError
    /\ Occurrences(rows, batch.input[1]) = 1

\* C4: an add of a ticker that is not in the registry, with providers that
\* confirm it and give a complete profile and with a working insert, succeeds,
\* and the listing then holds the ticker exactly once, read from a table that
\* the schema initialisation creates.
C4_AddThenListed ==
    (/\ LastAddOfAbsent
     /\ registered_modules # <<>>
     /\ NoProviderRefused /\ NoIncompleteProfile /\ ~SomeProviderRaised
     /\ ~last.fail)
        => /\ last.outcome = Returned
           /\ get_stocks_selection(tables, rows).outcome = Returned
           /\ Cardinality({i \in DOMAIN get_stocks_selection(tables, rows).result :
                  get_stocks_selection(tables, rows).result[i] = last.ticker}) = 1
           /\ TICKERS_TABLE_NAME \in create_tables({}).tables

\* C5: an add of a ticker that is already in the registry fails with
\* DuplicateTickerError and leaves the registry as it was.
C5_DuplicateRejected ==
    (last.op = "add" /\ last.ticker \in TickersOf(last.before))
        => (last.outcome = DuplicateTickerError /\ rows = last.before)

C5_Witness ==
    /\ last.op = "add" /\ last.ticker \in TickersOf(last.before)
    /\ last.outcome = DuplicateTickerError
    /\ Len(rows) = 2

\* C6: an add of a ticker that is not in the registry and that no enabled
\* provider confirms fails with UnknownTickerError and writes no row.
C6_UnknownRejected ==
    (LastAddOfAbsent /\ NoProviderConfirmed)
        => (last.outcome = UnknownTickerError /\ rows = last.before)

\* C7: an add of a ticker that is not in the registry, whose existence is
\* confirmed and for which no provider has a profile, fails with the typed
\* ProfileUnavailableError and writes no row; the aggregator's own error
\* does not reach the caller.
C7_ProfileUnavailable ==
    (/\ LastAddOfAbsent /\ SomeProviderConfirmed
     /\ \A p \in Range(registered_modules) : last.pr[p] = NoProfile)
        => (last.outcome = ProfileUnavailableError /\ rows = last.before)

\* C8: when a provider fails in transport during an add, the add ends with a
\* typed rejection, not with the provider's error, and the registry is as before.
C8_ProviderFailureRejects ==
    (last.op = "add" /\ SomeProviderRaised)
        => (IsOperationalException(last.outcome) /\ rows = last.before)

\* C9: a remove of a ticker that is not in the registry fails with
\* NotFoundError, issues no delete and leaves the registry as it was.
C9_RemoveAbsent ==
    (last.op = "remove" /\ last.ticker \notin TickersOf(last.before))
        => /\ last.outcome = NotFoundError
           /\ ~Asked(last.trace, "remove_ticker", last.ticker)
           /\ rows = last.before

\* C10: a successful add of a ticker that was not in the registry followed by
\* a successful remove of it leaves the registry as it was before the add.
C10_AddRemoveRoundTrip ==
    (last.op = "remove" /\ last.outcome = Returned /\ last.undoes # <<>>)
        => /\ rows = last.undoes[1]
           /\ TickersOf(rows) = TickersOf(last.undoes[1])

C10_Witness ==
    /\ last.op = "remove" /\ last.outcome = Returned /\ last.undoes # <<>>
    /\ last.ticker \notin TickersOf(last.undoes[1])
    /\ last.undoes[1] # <<>>
    /\ rows = last.undoes[1]

\* C11: when clearAll has returned and none of its deletes failed, the
\* listing returns the empty sequence, whatever the registry held before.
C11_ClearAllEmpties ==
    (batch.op = "clear" /\ batch.status = "returned" /\ ~batch.write_failed)
        => /\ get_stocks_selection(tables, rows).outcome = Returned
           /\ get_stocks_selection(tables, rows).result = <<>>

C11_Witness ==
    /\ batch.op = "clear" /\ batch.status = "returned" /\ ~batch.write_failed
    /\ Len(batch.input) = 2
    /\ last.op = "remove" /\ last.outcome = Returned
    /\ get_stocks_selection(tables, rows).result = <<>>

\* C12: a storage failure during add or remove reaches the caller as the
\* typed PersistenceError, never as a raw storage exception, and a failed add
\* or remove leaves the registry as it was before the call.
C12_StorageFailureTyped ==
    (last.op \in {"add", "remove"})
        => /\ last.outcome.exc # "sqlite3.OperationalError"
           /\ last.fail => last.outcome \in {AddPersistenceError, RemovePersistenceError}
           /\ last.outcome # Returned => rows = last.before

\* C13: when reloadFromConfig is over, it has put every configured ticker to
\* the providers without an exception escaping, every ticker the providers
\* validated is in the registry, every ticker they did not validate and that
\* was not there before is absent, and the tickers that were there before
\* are still there.
C13_ReloadPartialSuccess ==
    (batch.op = "reload" /\ batch.status # "running")
        => /\ batch.status = "returned" /\ batch.i = Len(batch.input)
           /\ batch.accepted \subseteq TickersOf(rows)
           /\ \A t \in (batch.rejected \ batch.accepted) \ batch.before :
                  t \notin TickersOf(rows)
           /\ batch.before \subseteq TickersOf(rows)

\* C14: a finished clearAll has returned normally and has attempted remove
\* for every ticker of the list it fetched.
C14_ClearNeverRaises ==
    (batch.op = "clear" /\ batch.status # "running")
        => (batch.status = "returned" /\ batch.i = Len(batch.input))

\* C15: every call has closed every storage connection it opened when it
\* returns or raises.
C15_ConnectionsReleased == last.unclosed = 0

\* C17: every run of create_tables, on a fresh store or on one already
\* initialised, returns without raising, leaves exactly the tables there were
\* plus the registry schema's two tables, would change nothing if run once
\* more, and leaves the rows as they were.
C17_CreateTablesIdempotent ==
    [][(phase = "new" /\ phase' # "new")
        => /\ last'.op = "create_tables" /\ last'.outcome = Returned
           /\ tables' = tables \cup {SELECTION_STOCKS_TABLE_NAME, TRADES_TABLE_NAME}
           /\ ~create_tables(tables').raised
           /\ create_tables(tables').tables = tables'
           /\ rows' = rows]_vars

\* create_tables has run on an initialised store that holds rows
C17_Witness ==
    /\ last.op = "create_tables"
    /\ last.outcome = Returned
    /\ {SELECTION_STOCKS_TABLE_NAME, TRADES_TABLE_NAME} \subseteq tables
    /\ rows # <<>>
    /\ rows = last.before

\* the position of a call in the order of add's steps
StepOf(call) ==
    CASE call[1] = "get_company_profile_from_selection" -> 1
      [] call[1] = "evaluate_ticker" -> 2
      [] call[1] = "get_profile" -> 3
      [] call[1] = "add_ticker" -> 4
      [] OTHER -> 0

CallsOf(trace, name) == {i \in 1..Len(trace) : trace[i][1] = name}

\* C18: the calls one add makes come in the order duplicate check, provider
\* existence check, profile fetch, insert, and stop at the first failure: an
\* add of a ticker that has a row fails with DuplicateTickerError after the
\* duplicate check alone, and an insert is issued only as the last call, after
\* a provider has confirmed the ticker and a provider has returned a profile
\* that passed validation.
C18_AddStepOrder ==
    (last.op = "add") =>
        LET tr == last.trace
        IN  /\ Len(tr) >= 1
            /\ tr[1] = <<"get_company_profile_from_selection", last.ticker>>
            /\ \A i, j \in 1..Len(tr) : i < j => StepOf(tr[i]) < StepOf(tr[j]) \/
                   (StepOf(tr[i]) = StepOf(tr[j]) /\ StepOf(tr[i]) \in {2, 3})
            /\ (last.ticker \in TickersOf(last.before))
                   => (last.outcome = DuplicateTickerError /\ Len(tr) = 1)
            /\ (last.outcome \in {SqliteError, DuplicateTickerError}) => Len(tr) = 1
            /\ (last.outcome = UnknownTickerError)
                   => CallsOf(tr, "get_profile") \cup CallsOf(tr, "add_ticker") = {}
            /\ (last.outcome \in {ProviderTransportError, NoProfileFound,
                                  ProfileUnavailableError,
                                  IncompleteNameError, IncompleteCategoryError})
                   => CallsOf(tr, "add_ticker") = {}
            /\ (CallsOf(tr, "add_ticker") # {})
                   => /\ CallsOf(tr, "add_ticker") = {Len(tr)}
                      /\ tr[Len(tr)] = <<"add_ticker", last.ticker>>
                      /\ \E p \in ProviderNames : last.ev[p] = "True"
                      /\ \E p \in ProviderNames :
                            /\ TruthyProfile(last.pr[p])
                            /\ Truthy(last.pr[p].companyName)
                      /\ last.outcome \in {Returned, AddPersistenceError}
            /\ (last.outcome = Returned) => CallsOf(tr, "add_ticker") # {}

\* an add has gone through all four steps and inserted its row
C18_Witness ==
    /\ last.op = "add"
    /\ last.outcome = Returned
    /\ last.trace = << <<"get_company_profile_from_selection", last.ticker>>,
                       <<"evaluate_ticker", "fmp">>, <<"get_profile", "fmp">>,
                       <<"add_ticker", last.ticker>> >>
    /\ Len(rows) = Len(last.before) + 1

\* C16: a call of the aggregator's evaluate_ticker returns true exactly when
\* an enabled provider confirmed the ticker; it has called the providers in
\* the configured order up to and including the first that confirmed (or
\* that failed), all of them when none did, and none when the list is empty,
\* where it returns false.
C16_FirstMatchWins ==
    (last.op = "evaluate_ticker") =>
        LET modules == registered_modules
            confirmed == {i \in 1..Len(modules) : last.ev[modules[i]] = "True"}
            ended == {i \in 1..Len(modules) : last.ev[modules[i]] \in {"True", "raise"}}
            stop == IF ended = {} THEN Len(modules)
                    ELSE CHOOSE i \in ended : \A j \in ended : i <= j
            returned_true == last.outcome = Returned /\ last.result = <<"True">>
            returned_false == last.outcome = Returned /\ last.result = <<"False">>
        IN  /\ returned_true <=> (confirmed # {})
            /\ returned_false <=> (\A i \in 1..Len(modules) : last.ev[modules[i]] = "False")
            /\ last.trace = [i \in 1..stop |-> <<"evaluate_ticker", modules[i]>>]
            /\ \A i \in 1..Len(modules) : (i > stop) <=> (last.ev[modules[i]] = "unasked")
            /\ (modules = <<>>) => returned_false

\* of three providers the first refused and the second confirmed: the call
\* returned true without calling the third
C16_Witness ==
    /\ last.op = "evaluate_ticker"
    /\ Len(registered_modules) = 3
    /\ last.ev[registered_modules[1]] = "False"
    /\ last.ev[registered_modules[2]] = "True"
    /\ last.ev[registered_modules[3]] = "unasked"
    /\ last.outcome = Returned /\ last.result = <<"True">>
    /\ Len(last.trace) = 2

C20_UnauthorizedNeverExecutes ==
    [][/\ telegram'.executed => telegram'.chat_id = int(ConfiguredChatId)
       /\ (telegram' # telegram /\ telegram'.chat_id # int(ConfiguredChatId)
           /\ telegram'.handler # "none")
            => /\ ~telegram'.executed
               /\ UNCHANGED <<tables, rows, batch, last, phase, registered_modules>>]_vars

\* an update from another chat has been rejected while the registry held rows
C20_Witness ==
    /\ telegram.handler \in Handlers
    /\ telegram.chat_id # int(ConfiguredChatId)
    /\ ~telegram.executed
    /\ rows # <<>>

\* C21: when a ticker handler of the conversation has finished with a text
\* of several tickers, it has passed every ticker of the text to the registry
\* once, in the order of the text, it has returned END, and the conversation
\* is over.
C21_EveryTickerAttemptedThenEnd ==
    (batch.op \in {"telegram_add", "telegram_remove"} /\ batch.status # "running")
        => /\ conversation.attempted = tickers_of(conversation.text)
           /\ conversation.ret = END
           /\ conversation.state = END

====
